---- MODULE Spec2Model ----
(***************************************************************************)
(* Model of Gemini.sendMessage (src/src/interfaces/gemini.js): the cache   *)
(* lookup, the retry loop with its backoff waits, the json_object parsing  *)
(* and the cache store; of Gemini.convertDataStructure with the generation *)
(* parameters sendMessage hands it; and of Writer.updateMessageObject      *)
(* (src/src/interfaces/writer.js).                                         *)
(*                                                                         *)
(* A call is suspended only at an await: while the provider answers and    *)
(* while a backoff timer runs.  Every action below is the code that runs   *)
(* between two such points.                                                *)
(***************************************************************************)
EXTENDS Integers, Sequences, FiniteSets, TLC

VARIABLES
  call,      \* call[c]: the sendMessage call in slot c, with its history
  cache,     \* the response cache: cacheKey -> [value, expiresAt]
  now,       \* the clock, in seconds
  issued,    \* number of sendMessage calls issued so far
  messages,  \* the messages array of the caller's messageObject
  original,  \* the messages array as the caller built it
  results,   \* what each updateMessageObject call returned or raised
  request,   \* the message object and the options given to sendMessage
  converted  \* what convertDataStructure made of the request

geminiVars == <<call, cache, now, issued>>
writerVars == <<messages, original, results>>
convertVars == <<request, converted>>
vars == <<call, cache, now, issued, messages, original, results,
          request, converted>>

(***************************************************************************)
(* Bounds of the model.                                                    *)
(***************************************************************************)
MaxTime == 2      \* the clock runs over 0..MaxTime (seconds)
MaxTTL == 1       \* cacheTimeoutSeconds supplied by a caller: 0..MaxTTL
MaxRetry == 2     \* retryAttempts supplied by a caller: -1..MaxRetry
MaxCalls == 2     \* calls issued in one behaviour that exercises the cache
MaxRetryCalls == 1   \* calls issued in one behaviour that exercises the retries

Calls == {1, 2}   \* call slots: two calls can overlap
SeqCalls == {1}   \* the slot used when calls are issued one after another

Msgs == {"m1"}   \* model + history + prompt + sampling parameters
Texts == {"", "hello", "[1]", "0"}   \* texts the provider can answer
Errors == {"transport", "config"}    \* errors an attempt can raise
Multipliers == {0, 5}     \* retryMultiplier supplied, in tenths (0.5 is 5)

(***************************************************************************)
(* JavaScript values that a call can return or cache.                      *)
(***************************************************************************)
JSUndefined == [t |-> "undefined", s |-> "", n |-> 0]
JSNull == [t |-> "null", s |-> "", n |-> 0]
JSString(str) == [t |-> "string", s |-> str, n |-> 0]
JSNumber(num) == [t |-> "number", s |-> "", n |-> num]
JSArray(str) == [t |-> "array", s |-> str, n |-> 0]

\* `if (v)`: undefined, null, "" and 0 are falsy; arrays are truthy
Truthy(v) ==
  CASE v.t = "undefined" -> FALSE
    [] v.t = "null" -> FALSE
    [] v.t = "string" -> v.s # ""
    [] v.t = "number" -> v.n # 0
    [] OTHER -> TRUE

\* JSON.parse(text): the texts that are JSON documents
ValidJSON(text) == text \in {"[1]", "0"}

JSONparse(text) ==
  CASE text = "[1]" -> JSArray("1")
    [] text = "0" -> JSNumber(0)
    [] OTHER -> JSUndefined

(***************************************************************************)
(* interfaceOptions: absent (the default {}), a bare number, or an object  *)
(* with any of cacheTimeoutSeconds, retryAttempts, retryMultiplier.        *)
(***************************************************************************)
OptionNames == {"cacheTimeoutSeconds", "retryAttempts", "retryMultiplier"}

InterfaceOptions ==
  {[kind |-> "default", n |-> 0, has |-> {},
    cacheTimeoutSeconds |-> 0, retryAttempts |-> 0, retryMultiplier |-> 0]}
  \cup
  {[kind |-> "number", n |-> k, has |-> {},
    cacheTimeoutSeconds |-> 0, retryAttempts |-> 0, retryMultiplier |-> 0] :
      k \in 0..MaxTTL}
  \cup
  {io \in [kind : {"object"}, n : {0}, has : SUBSET OptionNames,
           cacheTimeoutSeconds : 0..MaxTTL, retryAttempts : -1..MaxRetry,
           retryMultiplier : Multipliers] :
      /\ "cacheTimeoutSeconds" \notin io.has => io.cacheTimeoutSeconds = 0
      /\ "retryAttempts" \notin io.has => io.retryAttempts = 0
      /\ "retryMultiplier" \notin io.has => io.retryMultiplier = 0}

\* the options of the behaviours that exercise the cache: every shape of
\* interfaceOptions and every time-to-live, with no retry or one
CacheOptions ==
  {io \in InterfaceOptions :
     /\ "retryMultiplier" \notin io.has
     /\ "retryAttempts" \in io.has => io.retryAttempts = 1}

\* the options of the behaviours that exercise the retry loop: every retry
\* budget and multiplier, with the cache off or on
RetryOptions ==
  {io \in InterfaceOptions :
     /\ io.kind = "object"
     /\ "cacheTimeoutSeconds" \in io.has => io.cacheTimeoutSeconds = 1}

\* the options of the behaviours in which calls overlap: caching on, no retry
OverlapOptions ==
  {io \in CacheOptions :
     /\ io.kind = "object"
     /\ "cacheTimeoutSeconds" \in io.has /\ io.cacheTimeoutSeconds > 0
     /\ "retryAttempts" \notin io.has}

\* a property read: def is FALSE when the read yields undefined
Prop(io, name) ==
  IF io.kind = "object" /\ name \in io.has
  THEN [def |-> TRUE, v |-> io[name]]
  ELSE [def |-> FALSE, v |-> 0]

\* `p || d` on a number or undefined
OrElse(p, d) == IF p.def /\ p.v # 0 THEN p.v ELSE d

\* `if (p)` on a number or undefined
TruthyNum(p) == p.def /\ p.v # 0

cacheTimeoutSecondsOf_objectOnly(io) == Prop(io, "cacheTimeoutSeconds")

\* lines 69-72
cacheTimeoutSecondsOf(io) ==
  IF io.kind = "number" THEN [def |-> TRUE, v |-> io.n]
  ELSE Prop(io, "cacheTimeoutSeconds")

responseMimeType(response_format) ==
  IF response_format = "json_object" THEN "application/json" ELSE "text/plain"

ResponseFormats == {"text/plain", "json_object"}

cacheKeyOf(msg, response_format) ==
  [msg |-> msg, responseMimeType |-> responseMimeType(response_format)]

(***************************************************************************)
(* The response cache: entries with an expiry time, invalidated at read    *)
(* time and never purged.                                                  *)
(***************************************************************************)
getFromCache(c, key, t) ==
  IF key \in DOMAIN c /\ ~(t > c[key].expiresAt) THEN c[key].value ELSE JSNull

saveToCache(c, key, value, ttl, t) ==
  [k \in DOMAIN c \cup {key} |->
     IF k = key THEN [value |-> value, expiresAt |-> t + ttl] ELSE c[k]]

\* what the cache holds for a key at time t (recorded with each call)
entryState(c, key, t) ==
  IF key \notin DOMAIN c THEN "none"
  ELSE IF t > c[key].expiresAt THEN "expired" ELSE "fresh"

(***************************************************************************)
(* One sendMessage call.                                                   *)
(***************************************************************************)
NoOutcome == [kind |-> "none", value |-> JSUndefined, error |-> "none"]
Returned(v) == [kind |-> "return", value |-> v, error |-> "none"]
Thrown(e) == [kind |-> "throw", value |-> JSUndefined, error |-> e]

DefaultRetryAttempts == 0
DefaultRetryMultiplier == 3   \* 0.3, in tenths

\* line 109 with a bare number taken for the budget
initialRetryAttempts_fromNumber(io) ==
  IF io.kind = "number" THEN io.n
  ELSE OrElse(Prop(io, "retryAttempts"), DefaultRetryAttempts)
\* line 109: let retryAttempts = interfaceOptions.retryAttempts || 0
initialRetryAttempts(io) == OrElse(Prop(io, "retryAttempts"), DefaultRetryAttempts)

\* line 111 with the loop entered once more
loopContinues_fromMinusOne(retryAttempts) == retryAttempts >= -1
\* line 111: while (retryAttempts >= 0)
loopContinues(retryAttempts) == retryAttempts >= 0

exhausted_offByOne(retryAttempts) == retryAttempts <= 0

\* line 139: if (retryAttempts < 0), after the decrement
exhausted(retryAttempts) == retryAttempts < 0

rethrown_first(errs, error) == IF errs = <<>> THEN error ELSE errs[1]

\* line 144: throw error, the error the failed attempt raised
rethrown(errs, error) == error

delayOf_fromZero(io, currentRetry) ==
  LET retryMultiplier == OrElse(Prop(io, "retryMultiplier"), DefaultRetryMultiplier)
  IN (currentRetry * retryMultiplier * 1000) \div 10

\* lines 148-149: the delay in milliseconds, the multiplier given in tenths
delayOf(io, currentRetry) ==
  LET retryMultiplier == OrElse(Prop(io, "retryMultiplier"), DefaultRetryMultiplier)
  IN ((currentRetry + 1) * retryMultiplier * 1000) \div 10

\* lines 101-103: the cached response when the call reads the cache and hits
cacheHit(cacheTimeoutSeconds, cachedResponse) ==
  TruthyNum(cacheTimeoutSeconds) /\ Truthy(cachedResponse)

parseResponse_keepText(response_format, providerText) ==
  IF response_format = "json_object"
  THEN IF ValidJSON(providerText) THEN JSONparse(providerText)
       ELSE JSString(providerText)
  ELSE JSString(providerText)

parseResponse_alwaysParse(response_format, providerText) ==
  IF ValidJSON(providerText) THEN JSONparse(providerText) ELSE JSNull

\* lines 121-130: the text, parsed when json_object was asked for
parseResponse(response_format, providerText) ==
  IF response_format = "json_object"
  THEN IF ValidJSON(providerText) THEN JSONparse(providerText) ELSE JSNull
  ELSE JSString(providerText)

shouldSave_anyText(cacheTimeoutSeconds, text) == TruthyNum(cacheTimeoutSeconds)

shouldSave_anyCall(cacheTimeoutSeconds, text) == Truthy(text)

\* line 132: if (cacheTimeoutSeconds && text)
shouldSave(cacheTimeoutSeconds, text) ==
  TruthyNum(cacheTimeoutSeconds) /\ Truthy(text)

storeResponse_keepExisting(c, cacheKey, text, cacheTimeoutSeconds, t) ==
  IF shouldSave(cacheTimeoutSeconds, text) /\ cacheKey \notin DOMAIN c
  THEN saveToCache(c, cacheKey, text, cacheTimeoutSeconds.v, t)
  ELSE c

\* lines 132-134: the cache after the response has been handled
storeResponse(c, cacheKey, text, cacheTimeoutSeconds, t) ==
  IF shouldSave(cacheTimeoutSeconds, text)
  THEN saveToCache(c, cacheKey, text, cacheTimeoutSeconds.v, t)
  ELSE c

IdleCall ==
  [pc |-> "idle", msg |-> "m1", response_format |-> "text/plain",
   interfaceOptions |-> CHOOSE io \in InterfaceOptions : io.kind = "default",
   retryAttempts |-> 0, currentRetry |-> 0,
   invocations |-> 0, delays |-> <<>>, errs |-> <<>>,
   text |-> "", gotText |-> FALSE, hit |-> FALSE, stored |-> FALSE,
   found |-> "none",
   doneAt |-> 0, outcome |-> NoOutcome]

InitGemini ==
  /\ call = [c \in Calls |-> IdleCall]
  /\ cache = <<>>
  /\ now = 0
  /\ issued = 0

\* lines 66-118: the call from its start to its first await, or to its return,
\* with the cache c at time t
started(msg, response_format, io, c, t) ==
  LET cacheTimeoutSeconds == cacheTimeoutSecondsOf(io)
      cacheKey == cacheKeyOf(msg, response_format)
      cachedResponse == getFromCache(c, cacheKey, t)
      retryAttempts == initialRetryAttempts(io)
      fresh == [IdleCall EXCEPT !.msg = msg,
                                !.response_format = response_format,
                                !.interfaceOptions = io,
                                !.found = entryState(c, cacheKey, t)]
  IN IF cacheHit(cacheTimeoutSeconds, cachedResponse)
     THEN [fresh EXCEPT !.pc = "done", !.hit = TRUE, !.doneAt = t,
                        !.outcome = Returned(cachedResponse)]
     ELSE IF loopContinues(retryAttempts)
     THEN [fresh EXCEPT !.pc = "awaiting", !.retryAttempts = retryAttempts,
                        !.invocations = 1]
     ELSE [fresh EXCEPT !.pc = "done", !.retryAttempts = retryAttempts,
                        !.doneAt = t, !.outcome = Returned(JSUndefined)]

\* lines 118-136: the call cl once the provider has answered providerText
answered(cl, providerText, t) ==
  LET cacheTimeoutSeconds == cacheTimeoutSecondsOf(cl.interfaceOptions)
      text == parseResponse(cl.response_format, providerText)
  IN [cl EXCEPT !.pc = "done", !.text = providerText, !.gotText = TRUE,
                !.stored = shouldSave(cacheTimeoutSeconds, text),
                !.doneAt = t, !.outcome = Returned(text)]

\* lines 132-134: the cache c once the call cl has been answered providerText
answeredCache(c, cl, providerText, t) ==
  storeResponse(c, cacheKeyOf(cl.msg, cl.response_format),
                parseResponse(cl.response_format, providerText),
                cacheTimeoutSecondsOf(cl.interfaceOptions), t)

\* lines 137-151: the call cl once its attempt has raised error
failed(cl, error, t) ==
  LET retryAttempts == cl.retryAttempts - 1 IN
  IF exhausted(retryAttempts)
  THEN [cl EXCEPT !.pc = "done", !.retryAttempts = retryAttempts,
                  !.errs = Append(cl.errs, error), !.doneAt = t,
                  !.outcome = Thrown(rethrown(cl.errs, error))]
  ELSE [cl EXCEPT !.pc = "waiting", !.retryAttempts = retryAttempts,
                  !.errs = Append(cl.errs, error),
                  !.delays = Append(cl.delays,
                               delayOf(cl.interfaceOptions, cl.currentRetry))]

\* lines 66-118: from the call to the first await
sendMessage(c, msg, response_format, io, limit) ==
  /\ call[c].pc \in {"idle", "done"}
  /\ issued < limit
  /\ issued' = issued + 1
  /\ call' = [call EXCEPT ![c] = started(msg, response_format, io, cache, now)]
  /\ UNCHANGED <<cache, now>>
  /\ UNCHANGED writerVars
  /\ UNCHANGED convertVars

\* lines 118-136: the provider answers with a text
ProviderResponds(c, providerText) ==
  /\ call[c].pc = "awaiting"
  /\ cache' = answeredCache(cache, call[c], providerText, now)
  /\ call' = [call EXCEPT ![c] = answered(call[c], providerText, now)]
  /\ UNCHANGED <<now, issued>>
  /\ UNCHANGED writerVars
  /\ UNCHANGED convertVars

\* lines 137-151: the attempt raises
ProviderFails(c, error) ==
  /\ call[c].pc = "awaiting"
  /\ call' = [call EXCEPT ![c] = failed(call[c], error, now)]
  /\ UNCHANGED <<cache, now, issued>>
  /\ UNCHANGED writerVars
  /\ UNCHANGED convertVars

\* lines 151-153 and 111-118: the backoff timer fires, the next attempt starts
BackoffElapsed(c) ==
  LET cl == call[c] IN
  /\ cl.pc = "waiting"
  /\ IF loopContinues(cl.retryAttempts)
     THEN call' = [call EXCEPT ![c] =
            [cl EXCEPT !.pc = "awaiting", !.currentRetry = cl.currentRetry + 1,
                       !.invocations = cl.invocations + 1]]
     ELSE call' = [call EXCEPT ![c] =
            [cl EXCEPT !.pc = "done", !.currentRetry = cl.currentRetry + 1,
                       !.doneAt = now, !.outcome = Returned(JSUndefined)]]
  /\ UNCHANGED <<cache, now, issued>>
  /\ UNCHANGED writerVars
  /\ UNCHANGED convertVars

\* the clock
Tick ==
  /\ now < MaxTime
  /\ now' = now + 1
  /\ UNCHANGED <<call, cache, issued>>
  /\ UNCHANGED writerVars
  /\ UNCHANGED convertVars

Start(c, msgs, options, limit) ==
  \E msg \in msgs, response_format \in ResponseFormats, io \in options :
    sendMessage(c, msg, response_format, io, limit)

Responds(c) == \E providerText \in Texts : ProviderResponds(c, providerText)

Fails(c, errors) == \E error \in errors : ProviderFails(c, error)

(***************************************************************************)
(* Writer.updateMessageObject.                                             *)
(***************************************************************************)
MaxLen == 3           \* messages in the caller's messageObject: 0..MaxLen
MaxWriterCalls == 2   \* updateMessageObject calls on the same messageObject

Roles == {"system", "user", "assistant"}
Greeting == "You are a helpful assistant."
Contents == {Greeting, "Hi"}
Message == [role : Roles, content : Contents]
Hello == [role |-> "user", content |-> "Hello!"]

MessageLists == UNION {[1..n -> Message] : n \in 0..MaxLen}

\* Array.prototype.shift and unshift, as the array they leave
shift(msgs) == SubSeq(msgs, 2, Len(msgs))
unshift(msgs, m) == <<m>> \o msgs

\* lines 32-37 with the test of the content left out
afterGreeting_anySystem(msgs) ==
  IF msgs[1].role = "system" THEN shift(msgs) ELSE msgs
\* lines 32-37: the greeting is removed from the caller's array
afterGreeting(msgs) ==
  IF msgs[1].role = "system" /\ msgs[1].content = Greeting
  THEN shift(msgs) ELSE msgs

\* lines 40-42: a user message is put before a leading system message
afterSystem(msgs) ==
  IF Len(msgs) > 0 /\ msgs[1].role = "system"
  THEN unshift(msgs, Hello) ELSE msgs

convertedRole_swapped(i) == IF (i - 1) % 2 = 0 THEN "assistant" ELSE "user"

\* lines 45-51: index 0 of the array is position 1 of the sequence
convertedRole(i) == IF (i - 1) % 2 = 0 THEN "user" ELSE "assistant"

convertedMessages(msgs) ==
  [i \in 1..Len(msgs) |-> [msgs[i] EXCEPT !.role = convertedRole(i)]]

WriterReturned(msgs) == [kind |-> "return", messages |-> msgs]
WriterThrown == [kind |-> "throw", messages |-> <<>>]

InitWriter ==
  /\ messages \in MessageLists
  /\ original = messages
  /\ results = <<>>

\* lines 28-57; messages[0].role of an empty array raises a TypeError
updateMessageObject ==
  /\ Len(results) < MaxWriterCalls
  /\ IF Len(messages) = 0
     THEN /\ results' = Append(results, WriterThrown)
          /\ UNCHANGED messages
     ELSE /\ messages' = afterSystem(afterGreeting(messages))
          /\ results' = Append(results, WriterReturned(convertedMessages(messages')))
  /\ UNCHANGED original
  /\ UNCHANGED geminiVars
  /\ UNCHANGED convertVars

(***************************************************************************)
(* Gemini.convertDataStructure and the generation parameters of            *)
(* sendMessage.  temperature and topP are in tenths (0.9 is 9, 1 is 10).   *)
(***************************************************************************)
DefaultTemperature == 9    \* 0.9
DefaultTopP == 10          \* 1
DefaultTopK == 1
DefaultMaxTokens == 150

GenerationNames == {"temperature", "topP", "topK", "max_tokens"}

Temperatures == {0, 7}   \* 0 and 0.7
TopPs == {0, 5}          \* 0 and 0.5
TopKs == {40}
MaxTokens == {100}

\* the options a caller can supply: has holds the names that are present,
\* and a name that is absent has the value 0 in the record
Options ==
  {o \in [kind : {"object"}, has : SUBSET GenerationNames,
          temperature : Temperatures \cup {0}, topP : TopPs \cup {0},
          topK : TopKs \cup {0}, max_tokens : MaxTokens \cup {0},
          response_format : ResponseFormats] :
     /\ \A name \in GenerationNames \ o.has : o[name] = 0
     /\ "temperature" \in o.has => o.temperature \in Temperatures
     /\ "topP" \in o.has => o.topP \in TopPs
     /\ "topK" \in o.has => o.topK \in TopKs
     /\ "max_tokens" \in o.has => o.max_tokens \in MaxTokens}

Requests == [messages : MessageLists, options : Options]

\* line 76: a destructuring default stands in for undefined only
max_tokensOf(options) ==
  IF "max_tokens" \in options.has THEN options.max_tokens ELSE DefaultMaxTokens

\* lines 87-91
generationConfigOptions(options) ==
  [temperature |-> OrElse(Prop(options, "temperature"), DefaultTemperature),
   topP |-> OrElse(Prop(options, "topP"), DefaultTopP),
   topK |-> OrElse(Prop(options, "topK"), DefaultTopK)]

\* lines 36-39: the messages before the last one
historyOf(msgs) ==
  [i \in 1..(Len(msgs) - 1) |-> [role |-> msgs[i].role, text |-> msgs[i].content]]

\* lines 42-44 with every role of a history not led by a user set to user
firstRoleUser_everyRole(history) ==
  IF Len(history) > 0 /\ history[1].role # "user"
  THEN [i \in 1..Len(history) |-> [history[i] EXCEPT !.role = "user"]]
  ELSE history
\* lines 42-44
firstRoleUser(history) ==
  IF Len(history) > 0 /\ history[1].role # "user"
  THEN [history EXCEPT ![1].role = "user"] ELSE history

\* line 46
promptOf(msgs) == msgs[Len(msgs)].content

\* lines 35-57
convertDataStructure(input, maxTokens, responseFormat, options) ==
  [kind |-> "return",
   history |-> firstRoleUser(historyOf(input)),
   prompt |-> promptOf(input),
   generationConfig |->
     [temperature |-> options.temperature, topP |-> options.topP,
      topK |-> options.topK, maxOutputTokens |-> maxTokens,
      responseMimeType |-> responseMimeType(responseFormat)]]

NoGenerationConfig ==
  [temperature |-> 0, topP |-> 0, topK |-> 0, maxOutputTokens |-> 0,
   responseMimeType |-> ""]

NotConverted ==
  [kind |-> "none", history |-> <<>>, prompt |-> "",
   generationConfig |-> NoGenerationConfig]

\* line 46 on an empty messages array: content of undefined is a TypeError
ConvertThrown ==
  [kind |-> "throw", history |-> <<>>, prompt |-> "",
   generationConfig |-> NoGenerationConfig]

\* no request has been made
NoRequest ==
  [messages |-> <<>>,
   options |-> [kind |-> "object", has |-> {}, temperature |-> 0, topP |-> 0,
                topK |-> 0, max_tokens |-> 0, response_format |-> "text/plain"]]

IdleConvert ==
  /\ request = NoRequest
  /\ converted = NotConverted

InitConvert ==
  /\ request \in Requests
  /\ converted = NotConverted

\* lines 76-92 of sendMessage: the call of convertDataStructure
Convert ==
  /\ converted.kind = "none"
  /\ converted' =
       IF Len(request.messages) = 0 THEN ConvertThrown
       ELSE convertDataStructure(request.messages,
                                 max_tokensOf(request.options),
                                 request.options.response_format,
                                 generationConfigOptions(request.options))
  /\ UNCHANGED request
  /\ UNCHANGED geminiVars
  /\ UNCHANGED writerVars

(***************************************************************************)
(* Specifications.                                                         *)
(***************************************************************************)
Init ==
  /\ InitGemini
  /\ messages = <<>>
  /\ original = <<>>
  /\ results = <<>>
  /\ IdleConvert

\* calls issued one after another, over every shape of interfaceOptions
Next ==
  \/ \E c \in SeqCalls : Start(c, Msgs, CacheOptions, MaxCalls)
  \/ \E c \in SeqCalls : Responds(c)
  \/ \E c \in SeqCalls : Fails(c, {"transport"})
  \/ \E c \in SeqCalls : BackoffElapsed(c)
  \/ Tick

Spec == Init /\ [][Next]_vars

\* calls issued one after another, over every retry budget and multiplier
NextRetry ==
  \/ \E c \in SeqCalls : Start(c, Msgs, RetryOptions, MaxRetryCalls)
  \/ \E c \in SeqCalls : Responds(c)
  \/ \E c \in SeqCalls : Fails(c, Errors)
  \/ \E c \in SeqCalls : BackoffElapsed(c)
  \/ Tick

SpecRetry == Init /\ [][NextRetry]_vars

\* the same calls when every provider invocation ends, by an answer or by an
\* error (the awaits of lines 118-121), and every backoff timer fires (the
\* await of line 151)
ProviderCompletes == \E c \in SeqCalls : Responds(c) \/ Fails(c, Errors)

BackoffCompletes == \E c \in SeqCalls : BackoffElapsed(c)

\* the clock plays no part in the retry loop and stands still here
NextRetryFair ==
  \/ \E c \in SeqCalls : Start(c, Msgs, RetryOptions, MaxRetryCalls)
  \/ ProviderCompletes
  \/ BackoffCompletes

SpecRetryFair ==
  /\ Init /\ [][NextRetryFair]_vars
  /\ WF_vars(ProviderCompletes) /\ WF_vars(BackoffCompletes)

\* calls that overlap: a call is issued while another one is suspended
NextOverlap ==
  \/ \E c \in Calls : Start(c, Msgs, OverlapOptions, MaxCalls)
  \/ \E c \in Calls : Responds(c)
  \/ \E c \in Calls : Fails(c, {"transport"})
  \/ Tick

SpecOverlap == Init /\ [][NextOverlap]_vars

\* one request sent twice in step, by a call that passes the bare number n
\* (slot 1) and by a call that passes { cacheTimeoutSeconds: n } (slot 2); the
\* provider gives both the same answer at the same time, and the two requests
\* have cache keys of their own
PairMsg(c) == IF c = 1 THEN "m1" ELSE "m2"

BareNumber(n) == CHOOSE io \in InterfaceOptions : io.kind = "number" /\ io.n = n

CacheTimeoutOnly(n) ==
  CHOOSE io \in InterfaceOptions :
    /\ io.kind = "object" /\ io.has = {"cacheTimeoutSeconds"}
    /\ io.cacheTimeoutSeconds = n

PairOption(c, n) == IF c = 1 THEN BareNumber(n) ELSE CacheTimeoutOnly(n)

PairStart ==
  \E n \in 0..MaxTTL, response_format \in ResponseFormats :
    /\ \A c \in Calls : call[c].pc \in {"idle", "done"}
    /\ issued < MaxCalls
    /\ issued' = issued + 1
    /\ call' = [c \in Calls |->
                  started(PairMsg(c), response_format, PairOption(c, n), cache, now)]
    /\ UNCHANGED <<cache, now>>
    /\ UNCHANGED writerVars
    /\ UNCHANGED convertVars

PairResponds ==
  \E providerText \in Texts :
    /\ \A c \in Calls : call[c].pc = "awaiting"
    /\ cache' = answeredCache(answeredCache(cache, call[1], providerText, now),
                              call[2], providerText, now)
    /\ call' = [c \in Calls |-> answered(call[c], providerText, now)]
    /\ UNCHANGED <<now, issued>>
    /\ UNCHANGED writerVars
    /\ UNCHANGED convertVars

PairFails ==
  \E error \in Errors :
    /\ \A c \in Calls : call[c].pc = "awaiting"
    /\ call' = [c \in Calls |-> failed(call[c], error, now)]
    /\ UNCHANGED <<cache, now, issued>>
    /\ UNCHANGED writerVars
    /\ UNCHANGED convertVars

NextPair ==
  \/ PairStart
  \/ PairResponds
  \/ PairFails
  \/ Tick

SpecPair == Init /\ [][NextPair]_vars

\* updateMessageObject called on every message list
InitW ==
  /\ InitGemini
  /\ InitWriter
  /\ IdleConvert

NextWriter == updateMessageObject

SpecWriter == InitW /\ [][NextWriter]_vars

\* convertDataStructure called on every request
InitC ==
  /\ InitGemini
  /\ messages = <<>>
  /\ original = <<>>
  /\ results = <<>>
  /\ InitConvert

NextConvert == Convert

SpecConvert == InitC /\ [][NextConvert]_vars

(***************************************************************************)
(* The claims.                                                             *)
(***************************************************************************)
\* the retry budget the caller supplied: retryAttempts, 0 when none is given
Budget(io) == IF "retryAttempts" \in io.has THEN io.retryAttempts ELSE 0

\* every provider invocation of the call so far has failed
AlwaysFailing(cl) == cl.pc # "idle" /\ ~cl.hit /\ ~cl.gotText

\* C1: with retryAttempts = N >= 0 and no cache hit, a provider that fails on
\* every attempt is invoked exactly N + 1 times: while fewer than N + 1
\* attempts have failed the call is still running and nothing has reached the
\* caller, and when the call ends it ends by raising, after N + 1 invocations.
C1_FailingProviderInvokedNPlusOne ==
  \A c \in Calls :
    LET cl == call[c]
        N == Budget(cl.interfaceOptions)
    IN (AlwaysFailing(cl) /\ N >= 0) =>
         /\ cl.invocations = Len(cl.errs) + (IF cl.pc = "awaiting" THEN 1 ELSE 0)
         /\ cl.invocations <= N + 1
         /\ cl.pc # "done" => cl.outcome.kind = "none"
         /\ cl.pc = "done" => cl.outcome.kind = "throw" /\ cl.invocations = N + 1

C1_Witness ==
  \E c \in Calls :
    /\ call[c].pc = "done" /\ call[c].outcome.kind = "throw"
    /\ "retryAttempts" \in call[c].interfaceOptions.has
    /\ call[c].interfaceOptions.retryAttempts = MaxRetry
    /\ call[c].invocations = MaxRetry + 1

\* C4: with response_format json_object, a provider text that is not valid
\* JSON makes the call return null without raising, and the attempt is not
\* counted as a failure: no invocation and no wait follow it and the retry
\* budget is not touched, so a first answer of that kind is the only
\* invocation; a valid JSON text gives the parsed value.
C4_ParseFailureReturnsNull ==
  \A c \in Calls :
    LET cl == call[c] IN
    (cl.pc = "done" /\ cl.gotText /\ cl.response_format = "json_object") =>
      /\ ValidJSON(cl.text) => cl.outcome = Returned(JSONparse(cl.text))
      /\ ~ValidJSON(cl.text) =>
           /\ cl.outcome = Returned(JSNull)
           /\ cl.invocations = Len(cl.errs) + 1
           /\ Len(cl.delays) = Len(cl.errs)
           /\ cl.retryAttempts = Budget(cl.interfaceOptions) - Len(cl.errs)
           /\ cl.errs = <<>> => cl.invocations = 1 /\ cl.delays = <<>>

C4_Witness ==
  \E c \in Calls :
    /\ call[c].pc = "done" /\ call[c].gotText
    /\ call[c].response_format = "json_object" /\ call[c].text = "hello"
    /\ call[c].outcome = Returned(JSNull)
    /\ call[c].invocations = 1
    /\ Budget(call[c].interfaceOptions) > 0

\* C5: a call raises only when its retry budget is exhausted, and what it
\* raises is the error of the last attempt (attempt N + 1); an exhausted call
\* has raised, it has not returned a value.
C5_LastErrorRaised ==
  \A c \in Calls :
    LET cl == call[c]
        N == Budget(cl.interfaceOptions)
    IN /\ cl.outcome.kind = "throw" =>
            /\ cl.pc = "done"
            /\ Len(cl.errs) = N + 1
            /\ cl.outcome.error = cl.errs[Len(cl.errs)]
            /\ cl.outcome.value = JSUndefined
       /\ (N >= 0 /\ Len(cl.errs) = N + 1) =>
            cl.pc = "done" /\ cl.outcome.kind = "throw"

C5_Witness ==
  \E c \in Calls :
    /\ call[c].outcome.kind = "throw"
    /\ Len(call[c].errs) >= 2
    /\ call[c].errs[1] # call[c].errs[Len(call[c].errs)]
    /\ call[c].outcome.error = call[c].errs[Len(call[c].errs)]

\* C6: when the provider fails on the first k attempts (k <= retryAttempts)
\* and answers on attempt k + 1, the call returns that answer (in text mode
\* the text itself, a string), the provider was invoked k + 1 times and is not
\* invoked again, and none of the k errors has reached the caller.
C6_SuccessAfterFailures ==
  \A c \in Calls :
    LET cl == call[c]
        N == Budget(cl.interfaceOptions)
        k == Len(cl.errs)
    IN N >= 0 =>
         /\ (cl.pc = "done" /\ cl.gotText) =>
              /\ k <= N
              /\ cl.invocations = k + 1
              /\ cl.outcome.kind = "return" /\ cl.outcome.error = "none"
              /\ cl.response_format # "json_object" =>
                   cl.outcome.value = [t |-> "string", s |-> cl.text, n |-> 0]
         /\ (k <= N /\ cl.pc # "done") => cl.outcome.kind = "none"
         /\ cl.outcome.kind = "throw" => k > N

C6_Witness ==
  \E c \in Calls :
    /\ call[c].pc = "done" /\ call[c].gotText
    /\ Len(call[c].errs) = MaxRetry
    /\ call[c].response_format = "text/plain" /\ call[c].text = "hello"
    /\ call[c].outcome = Returned(JSString("hello"))
    /\ call[c].invocations = MaxRetry + 1

\* the multiplier the caller supplied, in tenths: 0.3 when none is given
Multiplier(io) == IF "retryMultiplier" \in io.has THEN io.retryMultiplier ELSE 3

\* C7: for a supplied retryMultiplier > 0, or 0.3 when none is supplied, the
\* wait after the failure of attempt i (0-indexed) is (i + 1) * multiplier *
\* 1000 ms; there is one wait per failure that leaves attempts, so N waits
\* and none after the final failure; the waits increase strictly.
C7_BackoffDelays ==
  \A c \in Calls :
    LET cl == call[c]
        N == Budget(cl.interfaceOptions)
        M == Multiplier(cl.interfaceOptions)
    IN (cl.pc # "idle" /\ M > 0 /\ N >= 0) =>
         /\ \A i \in 0..(Len(cl.delays) - 1) :
              cl.delays[i + 1] * 10 = (i + 1) * M * 1000
         /\ Len(cl.delays) = IF Len(cl.errs) <= N THEN Len(cl.errs) ELSE N
         /\ \A i, j \in 1..Len(cl.delays) : i < j => cl.delays[i] < cl.delays[j]

C7_Witness ==
  \E c \in Calls :
    /\ call[c].outcome.kind = "throw"
    /\ "retryMultiplier" \in call[c].interfaceOptions.has
    /\ call[c].interfaceOptions.retryMultiplier = 5
    /\ Len(call[c].delays) = MaxRetry
    /\ call[c].delays[1] = 500 /\ call[c].delays[2] = 1000

\* the call has a time-to-live that turns the cache on: a positive number of
\* seconds, as a bare number or as cacheTimeoutSeconds
CachingEnabled(io) ==
  \/ io.kind = "number" /\ io.n > 0
  \/ /\ io.kind = "object" /\ "cacheTimeoutSeconds" \in io.has
     /\ io.cacheTimeoutSeconds > 0

TTL(io) == IF io.kind = "number" THEN io.n ELSE io.cacheTimeoutSeconds

\* the call supplies no time-to-live
NoTTL(io) ==
  \/ io.kind = "default"
  \/ io.kind = "object" /\ "cacheTimeoutSeconds" \notin io.has

\* a result that is neither null or undefined nor the empty string
NonEmpty(v) == v.t \notin {"null", "undefined"} /\ ~(v.t = "string" /\ v.s = "")

\* a result JavaScript does not treat as false: neither null, undefined, the
\* empty string nor the number 0
NotFalsy(v) == NonEmpty(v) /\ ~(v.t = "number" /\ v.n = 0)

KeyOf(cl) == [msg |-> cl.msg,
              responseMimeType |-> IF cl.response_format = "json_object"
                                   THEN "application/json" ELSE "text/plain"]

\* this step issues, in slot c, the call that follows the completed call of
\* the slot: the same request, caching enabled in both, the first one answered
\* by the provider, the second one issued within the first one's time-to-live
IssuedAgainWithinTTL(c) ==
  /\ call[c].pc = "done" /\ call'[c] # call[c]
  /\ KeyOf(call'[c]) = KeyOf(call[c])
  /\ CachingEnabled(call[c].interfaceOptions)
  /\ CachingEnabled(call'[c].interfaceOptions)
  /\ call[c].outcome.kind = "return" /\ call[c].gotText
  /\ now <= call[c].doneAt + TTL(call[c].interfaceOptions)

\* the call issued by this step ends in the step, with the value the
\* completed call returned, and no provider invocation, retry or wait
ServedFromCache(c) ==
  /\ call'[c].pc = "done"
  /\ call'[c].outcome = Returned(call[c].outcome.value)
  /\ call'[c].invocations = 0
  /\ call'[c].currentRetry = 0 /\ call'[c].errs = <<>>
  /\ call'[c].delays = <<>>
  /\ cache' = cache

\* C2 as stated: a request issued again within the time-to-live, the first
\* call having returned a non-empty result, is served from the cache with no
\* provider invocation, no retry and no wait.
C2_NonEmptyResultServedFromCache ==
  [][\A c \in Calls :
       (IssuedAgainWithinTTL(c) /\ NonEmpty(call[c].outcome.value))
         => ServedFromCache(c)]_vars

\* C2 as amended: a request issued again within the time-to-live, the first
\* call having returned a result that is not falsy (not null, not the empty
\* string, not 0 or false), is served from the cache with the value the first
\* call stored and with no provider invocation, no retry and no wait.
C2_StoredResultServedFromCache ==
  [][\A c \in Calls :
       (IssuedAgainWithinTTL(c) /\ NotFalsy(call[c].outcome.value))
         => ServedFromCache(c)]_vars

C2_Witness ==
  \E c \in Calls :
    /\ call[c].pc = "done" /\ call[c].hit
    /\ issued = 2
    /\ call[c].invocations = 0
    /\ call[c].found = "fresh"
    /\ NotFalsy(call[c].outcome.value)

\* C3: the cache changes only in the step in which a provider attempt of a
\* call succeeds and the call returns a result that is neither null nor empty;
\* that step writes the result under the call's key and nothing else.  A
\* failed attempt, an exhausted call, a parse failure and an empty text leave
\* the cache as it was.
C3_StoreOnlyAfterSuccess ==
  [][cache' # cache =>
       \E c \in Calls :
         /\ call[c].pc = "awaiting" /\ call'[c].pc = "done"
         /\ call'[c].gotText
         /\ call'[c].outcome.kind = "return"
         /\ NonEmpty(call'[c].outcome.value)
         /\ DOMAIN cache' = DOMAIN cache \cup {KeyOf(call[c])}
         /\ cache'[KeyOf(call[c])].value = call'[c].outcome.value
         /\ \A k \in DOMAIN cache : k # KeyOf(call[c]) => cache'[k] = cache[k]]_vars

C3_Witness ==
  \E c \in Calls :
    /\ call[c].pc = "done" /\ issued = 2
    /\ CachingEnabled(call[c].interfaceOptions)
    /\ call[c].response_format = "json_object"
    /\ call[c].gotText /\ call[c].outcome = Returned(JSNull)
    /\ call[c].errs # <<>>
    /\ cache # <<>>
    /\ KeyOf(call[c]) \notin DOMAIN cache

\* this step issues, in slot c, a call with caching enabled for a request
\* whose cache entry has passed its expiry time
IssuedAfterExpiry(c) ==
  /\ call[c].pc \in {"idle", "done"} /\ call'[c] # call[c]
  /\ CachingEnabled(call'[c].interfaceOptions)
  /\ KeyOf(call'[c]) \in DOMAIN cache
  /\ now > cache[KeyOf(call'[c])].expiresAt

\* this step ends, with an answer of the provider, a call with caching
\* enabled that found the entry of its request expired
AnsweredAfterExpiry(c) ==
  /\ call[c].pc = "awaiting" /\ call'[c].pc = "done" /\ call'[c].gotText
  /\ CachingEnabled(call[c].interfaceOptions)
  /\ call[c].found = "expired"

Overwritten(c) ==
  /\ KeyOf(call[c]) \in DOMAIN cache'
  /\ cache'[KeyOf(call[c])] =
       [value |-> call'[c].outcome.value,
        expiresAt |-> now + TTL(call[c].interfaceOptions)]

\* C8 as stated: a call with caching enabled whose entry has expired misses:
\* it invokes the provider, and a non-empty result overwrites the entry.
C8_ExpiredEntryNonEmptyOverwrites ==
  [][\A c \in Calls :
       /\ IssuedAfterExpiry(c) =>
            /\ call'[c].pc = "awaiting" /\ call'[c].invocations = 1
            /\ ~call'[c].hit
       /\ (AnsweredAfterExpiry(c) /\ NonEmpty(call'[c].outcome.value))
            => Overwritten(c)]_vars

\* C8 as amended: a call with caching enabled whose entry has expired misses:
\* it invokes the provider, and a result that is not falsy (not null, not the
\* empty string, not 0 or false) overwrites the entry under the same key.
C8_ExpiredEntryIsMiss ==
  [][\A c \in Calls :
       /\ IssuedAfterExpiry(c) =>
            /\ call'[c].pc = "awaiting" /\ call'[c].invocations = 1
            /\ ~call'[c].hit
       /\ (AnsweredAfterExpiry(c) /\ NotFalsy(call'[c].outcome.value))
            => Overwritten(c)]_vars

C8_Witness ==
  \E c \in Calls :
    /\ call[c].pc = "done" /\ call[c].found = "expired"
    /\ CachingEnabled(call[c].interfaceOptions)
    /\ call[c].invocations >= 1 /\ call[c].stored
    /\ cache[KeyOf(call[c])].value = call[c].outcome.value
    /\ cache[KeyOf(call[c])].expiresAt >= now

\* C9: a call that supplies no time-to-live leaves the cache as it is in each
\* of its steps and is never answered from it: it goes to the provider, also
\* when the cache holds a valid entry for its request.
C9_NoTTLNoCache ==
  [][\A c \in Calls :
       (NoTTL(call'[c].interfaceOptions) /\ call'[c] # call[c]) =>
         /\ cache' = cache
         /\ ~call'[c].hit
         /\ call[c].pc \in {"idle", "done"} =>
              call'[c].pc = "awaiting" /\ call'[c].invocations = 1]_vars

C9_Witness ==
  \E c \in Calls :
    /\ call[c].pc = "done" /\ NoTTL(call[c].interfaceOptions)
    /\ call[c].found = "fresh"
    /\ call[c].invocations = 1 /\ call[c].gotText
    /\ NotFalsy(call[c].outcome.value)
    /\ cache[KeyOf(call[c])].value # call[c].outcome.value

\* C10: the messages updateMessageObject returns have role user at every even
\* index and role assistant at every odd index (index 0 first), whatever the
\* roles of the input were.
C10_RolesAlternate ==
  \A r \in 1..Len(results) :
    results[r].kind = "return" =>
      \A i \in 0..(Len(results[r].messages) - 1) :
        results[r].messages[i + 1].role =
          (IF i % 2 = 0 THEN "user" ELSE "assistant")

C10_Witness ==
  /\ Len(results) >= 1 /\ results[1].kind = "return"
  /\ Len(results[1].messages) = MaxLen
  /\ original[1].role = "assistant" /\ original[2].role = "user"

ContentsOf(msgs) == [i \in 1..Len(msgs) |-> msgs[i].content]

\* the first message is the generic system greeting
LeadingGreeting(msgs) ==
  Len(msgs) > 0 /\ msgs[1].role = "system" /\ msgs[1].content = Greeting

\* C11: on a non-empty list updateMessageObject returns, in order, the
\* contents of the input without a leading generic system greeting, preceded
\* by the content of the synthetic user message exactly when the first message
\* that remains is a system message; nothing else is added, removed or moved.
C11_LeadingSystemRules ==
  (Len(results) >= 1 /\ Len(original) > 0) =>
    LET kept == IF LeadingGreeting(original) THEN Tail(original) ELSE original
        inserted == IF Len(kept) > 0 /\ kept[1].role = "system"
                    THEN <<Hello.content>> ELSE <<>>
    IN /\ results[1].kind = "return"
       /\ ContentsOf(results[1].messages) = inserted \o ContentsOf(kept)

C11_Witness ==
  /\ Len(results) >= 1 /\ results[1].kind = "return"
  /\ Len(original) = MaxLen /\ LeadingGreeting(original)
  /\ original[2].role = "system" /\ original[2].content = "Hi"
  /\ ContentsOf(results[1].messages) =
       <<Hello.content>> \o ContentsOf(Tail(original))

\* the value the caller supplied for a generation parameter, else its default
Supplied(options, name, default) ==
  IF name \in options.has THEN options[name] ELSE default

\* C12: the generation config carries exactly the value the caller supplied
\* for temperature, topP, topK and max_tokens, and the default (0.9, 1, 1,
\* 150) only where the caller supplied none.
C12_CallerValuesWin ==
  converted.kind = "return" =>
    LET o == request.options
        gc == converted.generationConfig
    IN /\ gc.temperature = Supplied(o, "temperature", DefaultTemperature)
       /\ gc.topP = Supplied(o, "topP", DefaultTopP)
       /\ gc.topK = Supplied(o, "topK", DefaultTopK)
       /\ gc.maxOutputTokens = Supplied(o, "max_tokens", DefaultMaxTokens)

\* C13: a configuration error ends the call at once: it is the last error of
\* the call, it is the error raised to the caller, and no backoff wait and no
\* further attempt follow it, whatever retryAttempts is.
C13_ConfigErrorIsFatal ==
  \A c \in Calls :
    LET cl == call[c] IN
    \A i \in 1..Len(cl.errs) :
      cl.errs[i] = "config" =>
        /\ i = Len(cl.errs)
        /\ Len(cl.delays) = i - 1
        /\ cl.pc = "done"
        /\ cl.outcome.kind = "throw" /\ cl.outcome.error = "config"

\* the result of an attempt whose provider text is text
OwnResult(response_format, text) ==
  IF response_format # "json_object" THEN JSString(text)
  ELSE IF ValidJSON(text) THEN JSONparse(text) ELSE JSNull

\* C14: when calls for the same request overlap with caching enabled, each
\* call that returns does so with the value the cache held for its key when
\* it was issued (a hit, which leaves the cache alone) or with the result of
\* its own provider invocation; a result that is stored replaces the entry of
\* the key (last write wins) and touches no other entry, so the key holds one
\* entry whose value is the result of one of the calls.
C14_OverlapLastWriteWins ==
  [][\A c \in Calls :
       (/\ call'[c] # call[c] /\ call'[c].pc = "done"
        /\ call'[c].outcome.kind = "return") =>
         LET cl == call'[c]
             key == KeyOf(cl)
         IN \/ /\ cl.hit /\ cl.invocations = 0
               /\ key \in DOMAIN cache
               /\ cl.outcome.value = cache[key].value
               /\ cache' = cache
            \/ /\ ~cl.hit /\ cl.gotText /\ cl.invocations >= 1
               /\ cl.outcome.value = OwnResult(cl.response_format, cl.text)
               /\ IF CachingEnabled(cl.interfaceOptions) /\ NotFalsy(cl.outcome.value)
                  THEN /\ DOMAIN cache' = DOMAIN cache \cup {key}
                       /\ cache'[key].value = cl.outcome.value
                       /\ \A k \in DOMAIN cache : k # key => cache'[k] = cache[k]
                  ELSE cache' = cache]_vars

\* two calls for the same request both missed the cache, both invoked the
\* provider before either stored, and both stored: the entry is the result of
\* one of them
C14_Witness ==
  /\ KeyOf(call[1]) = KeyOf(call[2])
  /\ \A c \in Calls :
       /\ call[c].pc = "done" /\ call[c].found = "none"
       /\ ~call[c].hit /\ call[c].invocations >= 1 /\ call[c].stored
  /\ call[1].outcome.value # call[2].outcome.value
  /\ cache[KeyOf(call[1])].value = call[1].outcome.value
  /\ call[2].doneAt < call[1].doneAt

\* the cache entry of the request of slot c under the given response format
PairEntry(c, response_format) ==
  LET key == cacheKeyOf(PairMsg(c), response_format)
  IN IF key \in DOMAIN cache
     THEN [present |-> TRUE, value |-> cache[key].value,
           expiresAt |-> cache[key].expiresAt]
     ELSE [present |-> FALSE, value |-> JSUndefined, expiresAt |-> 0]

\* C15: a call that passes the bare number n goes the way of a call that
\* passes { cacheTimeoutSeconds: n } for the same request and the same
\* provider behaviour: the same cache lookup (hit or miss, and what was
\* found), the same retry budget (0), the same invocations, waits and result,
\* and the same cache entry with the same expiry time.
C15_BareNumberIsCacheTimeout ==
  call[1].interfaceOptions.kind = "number" =>
    /\ call[2].interfaceOptions = CacheTimeoutOnly(call[1].interfaceOptions.n)
    /\ call[1].retryAttempts <= 0
    /\ [call[1] EXCEPT !.msg = call[2].msg,
                       !.interfaceOptions = call[2].interfaceOptions] = call[2]
    /\ \A response_format \in ResponseFormats :
         PairEntry(1, response_format) = PairEntry(2, response_format)

C15_Witness ==
  /\ call[1].interfaceOptions.kind = "number" /\ call[1].interfaceOptions.n > 0
  /\ call[1].pc = "done" /\ call[2].pc = "done"
  /\ call[1].hit /\ call[2].hit
  /\ call[1].outcome = call[2].outcome /\ NotFalsy(call[1].outcome.value)
  /\ PairEntry(1, call[1].response_format).present

\* C16: after updateMessageObject the caller's messages array is what it was
\* before the call: the same length, roles and contents.
C16_CallerObjectUnchanged ==
  Len(results) >= 1 => messages = original

\* C17: on a non-empty list, two calls of updateMessageObject in succession
\* with the same message object both return, and return the same sequence.
C17_Repeatable ==
  (Len(results) >= 2 /\ Len(original) > 0) =>
    /\ results[1].kind = "return"
    /\ results[2] = results[1]

\* C19: whatever retryAttempts is, a call that ended without a cache hit has
\* invoked the provider at least once, and it ended by raising or by
\* returning the result of an attempt the provider answered.
C19_NeverEndsWithoutProviderResult ==
  \A c \in Calls :
    LET cl == call[c] IN
    (cl.pc = "done" /\ ~cl.hit) =>
      /\ cl.invocations >= 1
      /\ \/ cl.outcome.kind = "throw"
         \/ /\ cl.outcome.kind = "return" /\ cl.gotText
            /\ cl.outcome.value = OwnResult(cl.response_format, cl.text)

\* the call of slot c is suspended at an await
Suspended(c) == call[c].pc \in {"awaiting", "waiting"}

\* C20: a call suspended at a provider invocation or at a backoff wait
\* eventually completes, provided invocations and waits complete; every
\* failed attempt leaves a strictly smaller budget; and the provider
\* invocations of one call never exceed retryAttempts + 1.
C20_CallCompletes ==
  /\ \A c \in SeqCalls : Suspended(c) ~> (call[c].pc = "done")
  /\ [][\A c \in SeqCalls :
          Len(call'[c].errs) > Len(call[c].errs) =>
            call'[c].retryAttempts < call[c].retryAttempts]_vars
  /\ [](\A c \in SeqCalls :
          call[c].pc # "idle" =>
            call[c].invocations <= Budget(call[c].interfaceOptions) + 1)

C20_Witness ==
  \E c \in SeqCalls :
    /\ call[c].pc = "done" /\ call[c].outcome.kind = "throw"
    /\ Budget(call[c].interfaceOptions) = MaxRetry
    /\ call[c].invocations = MaxRetry + 1
    /\ Len(call[c].delays) = MaxRetry
    /\ call[c].retryAttempts = -1

\* C18: on a non-empty list convertDataStructure returns; the prompt is the
\* content of the last message, and the history is every earlier message, in
\* order, with its content; the first element of the history has role user
\* and every other element keeps the role it had.
C18_SplitKeepsOrder ==
  (converted.kind # "none" /\ Len(request.messages) > 0) =>
    LET msgs == request.messages
        history == converted.history
    IN /\ converted.kind = "return"
       /\ converted.prompt = msgs[Len(msgs)].content
       /\ Len(history) = Len(msgs) - 1
       /\ \A i \in 1..Len(history) :
            /\ history[i].text = msgs[i].content
            /\ history[i].role = (IF i = 1 THEN "user" ELSE msgs[i].role)

C18_Witness ==
  /\ converted.kind = "return"
  /\ Len(request.messages) = MaxLen
  /\ request.messages[1].role = "system" /\ request.messages[2].role = "system"
  /\ request.messages[1].content # request.messages[MaxLen].content
  /\ converted.history[1].role = "user" /\ converted.history[2].role = "system"

====
